---- MODULE Spec2Model ----
(***************************************************************************)
(* The libvirtd backend of nixops (nixops/backends/libvirtd.py): the       *)
(* lifecycle of one machine (create / start / stop / destroy) against a    *)
(* hypervisor, a DHCP lease table and the files under imageDir.            *)
(*                                                                         *)
(* Python strings that the code formats, concatenates or searches are      *)
(* sequences of atoms (TLA+ strings); Python None is the empty sequence.   *)
(***************************************************************************)
EXTENDS Integers, Sequences, FiniteSets, TLC

\* ------------------------------------------------------------------ bounds
\* lease lookups of one _wait_for_ip that find nothing
MaxPolls == 2

\* ------------------------------------------------------------ plain values
None == <<>>

Nets == {<<"default">>, <<"isolated">>}

\* the machine under control and another machine of the same deployment
MachineName == <<"a">>
OtherName == <<"a", "b">>
DeplUuid == <<"uuid">>
ImageDir == <<"/images">>

Digits == <<"1", "2", "3", "4">>
HexDigits ==
    <<"0", "1", "2", "3", "4", "5", "6", "7",
      "8", "9", "a", "b", "c", "d", "e", "f">>

\* "%02x" % x
Hex2(x) == <<HexDigits[(x \div 16) + 1], HexDigits[(x % 16) + 1]>>

\* ':'.join(map(lambda x: "%02x" % x, mac))
RECURSIVE JoinColon(_)
JoinColon(octets) ==
    IF Len(octets) = 0 THEN <<>>
    ELSE IF Len(octets) = 1 THEN Hex2(octets[1])
    ELSE Hex2(octets[1]) \o <<":">> \o JoinColon(Tail(octets))

\* _generate_primary_mac, with the three random draws as inputs
MacOctets(r1, r2, r3) == <<82, 84, 0, r1, r2, r3>>

\* the draws of random.randint(0x00, 0x7f), (0x00, 0xff), (0x00, 0xff) that
\* are explored: the lowest and the highest of each range
GenerateDraws == { <<0, 0, 0>>, <<127, 255, 255>> }

_generate_primary_mac(r) == JoinColon(MacOctets(r[1], r[2], r[3]))

\* _vm_id: "nixops-{0}-{1}".format(self.depl.uuid, self.name)
VmIdOf(name) == <<"nixops-">> \o DeplUuid \o <<"-">> \o name

_vm_id == VmIdOf(MachineName)

\* "{0}/{1}.img".format(image_dir, vid)
DiskPathOf(image_dir, vid) == image_dir \o <<"/">> \o vid \o <<".img">>

\* "{0}/{1}-{2}.img".format(image_dir, vid, disk_name)
ExtraDiskPathOf(image_dir, vid, disk_name) ==
    image_dir \o <<"/">> \o vid \o <<"-">> \o disk_name \o <<".img">>

\* _disk_path: "{0}/{1}.img".format(defn.image_dir, self._vm_id())
_disk_path(defn) == DiskPathOf(defn.image_dir, _vm_id)

DiskName(k) == <<"disk", Digits[k]>>
DiskDevice(k) == <<"vd", Digits[k]>>

\* the disk_path of _copy_extra_disks
ExtraDiskPath(defn, k) == ExtraDiskPathOf(defn.image_dir, _vm_id, DiskName(k))

\* ------------------------------------------------------------- definitions
\* LibvirtdDefinition: networks is non-empty, disks maps disk names to disks
Definition(nets, ds) == [networks |-> nets, disks |-> ds, image_dir |-> ImageDir]

\* the definitions create() is called with: one network and no extra disk,
\* two networks and an extra disk, the same with the networks reordered, and
\* two interfaces on the same network
Defns ==
    { Definition(<< <<"default">> >>, {}),
      Definition(<< <<"default">>, <<"isolated">> >>, {1}),
      Definition(<< <<"isolated">>, <<"default">> >>, {1}),
      Definition(<< <<"default">>, <<"default">> >>, {}) }

\* defn.disks.items(), in iteration order
DiskOrder(ds) == SelectSeq([i \in 1..Len(Digits) |-> i], LAMBDA i : i \in ds)

\* ------------------------------------------------- the domain descriptor
\* maybe_mac(n): the mac element of the interface on network n, or ""
maybe_mac(n, pnet, pmac) == IF n = pnet THEN pmac ELSE None

\* iface(n): one interface element, <<mac element, source network>>
iface(n, pnet, pmac) == <<maybe_mac(n, pnet, pmac), n>>

\* disk_xml(disk_name, disk_state): <<source file, target dev>>
disk_xml(disk_state) == <<disk_state[3], disk_state[2]>>

\* _make_domain_xml: <<name, primary disk source, disk elements, interfaces>>
_make_domain_xml(defn, pnet, pmac, xdisks) ==
    << _vm_id,
       _disk_path(defn),
       [i \in 1..Len(xdisks) |-> disk_xml(xdisks[i])],
       [i \in 1..Len(defn.networks) |-> iface(defn.networks[i], pnet, pmac)] >>

XmlName(xml) == xml[1]
XmlIfaces(xml) == xml[4]

\* _copy_extra_disks: out, as <<disk name, device, imagePath>> per disk
_copy_extra_disks(defn) ==
    LET ord == DiskOrder(defn.disks)
    IN  [i \in 1..Len(ord) |->
            <<DiskName(ord[i]), DiskDevice(ord[i]), ExtraDiskPath(defn, ord[i])>>]

\* ------------------------------------------------------------ hypervisor
OtherVmId == VmIdOf(OtherName)
OtherMac == JoinColon(MacOctets(1, 2, 3))
OtherNet == <<"default">>
OtherXml ==
    <<OtherVmId, ImageDir \o <<"/">> \o OtherVmId \o <<".img">>, <<>>,
      << <<OtherMac, OtherNet>> >> >>
OtherDisk == OtherXml[2]

DomainOrder == <<_vm_id, OtherVmId>>

\* the text "virsh list" prints: a header, then one row per running domain
ListOutput(run) ==
    LET row(d) == IF d \in run THEN <<" ">> \o d \o <<" running", "\n">> ELSE <<>>
    IN  <<" Id", " Name", " State", "\n">> \o row(DomainOrder[1]) \o row(DomainOrder[2])

\* string.find(hay, needle) != -1
Contains(hay, needle) ==
    \E i \in 0..(Len(hay) - Len(needle)) :
        SubSeq(hay, i + 1, i + Len(needle)) = needle

\* _is_running, given the set of running domains
_is_running_never(run, vid) == FALSE

_is_running(run, vid) == Contains(ListOutput(run), vid)

DomainNames(doms) == { XmlName(x) : x \in doms }

\* "virsh define": the descriptor replaces any domain of the same name
Define(doms, xml) == { x \in doms : XmlName(x) # XmlName(xml) } \cup {xml}

\* "virsh undefine"
Undefine(doms, vid) == { x \in doms : XmlName(x) # vid }

\* ---------------------------------------------------------------- leases
IpOf(net, mac) == <<"ip-">> \o net \o <<"-">> \o SubSeq(mac, Len(mac) - 1, Len(mac))

LeaseRow(net, mac) ==
    << <<"2026-01-01">>, <<"12:00:00">>, mac, <<"ipv4">>,
       IpOf(net, mac) \o <<"/", "24">>, <<"host">>, <<"-">> >>

RECURSIVE RowsOf(_, _)
RowsOf(net, macs) ==
    IF macs = {} THEN <<>>
    ELSE LET m == CHOOSE m \in macs : TRUE
         IN  LeaseRow(net, m) \o RowsOf(net, macs \ {m})

\* lines.split() of "virsh net-dhcp-leases --network net"
LeaseTokens(ls, net) ==
    << <<"Expiry">>, <<"Time">>, <<"MAC">>, <<"address">>, <<"Protocol">>,
       <<"IP">>, <<"address">>, <<"Hostname">>, <<"Client">>, <<"ID">> >>
    \o (IF net = OtherNet THEN LeaseRow(net, OtherMac) ELSE <<>>)
    \o RowsOf(net, { l[2] : l \in { l \in ls : l[1] = net } })

\* ip_with_subnet.split('/')[0]
RECURSIVE BeforeSlash(_)
BeforeSlash(s) ==
    IF Len(s) = 0 \/ Head(s) = "/" THEN <<>>
    ELSE <<Head(s)>> \o BeforeSlash(Tail(s))

\* _parse_ip: the address leased to mac on net, or None
_parse_ip_WithSubnet(ls, net, mac) ==
    LET tokens == LeaseTokens(ls, net)
        hits == { i \in 1..Len(tokens) : tokens[i] = mac }
    IN  IF hits = {} THEN None
        ELSE LET i == CHOOSE i \in hits : \A j \in hits : i <= j
             IN  tokens[i + 2]

_parse_ip(ls, net, mac) ==
    LET tokens == LeaseTokens(ls, net)
        hits == { i \in 1..Len(tokens) : tokens[i] = mac }
    IN  IF hits = {} THEN None
        ELSE LET i == CHOOSE i \in hits : \A j \in hits : i <= j
             IN  BeforeSlash(tokens[i + 2])

\* ------------------------------------------------------------------ state
VARIABLES
    vm_id, primary_net, primary_mac, private_ipv4, domain_xml, disk_path,
    extra_disks, client_public_key, client_private_key, state,
    domains, running, leases, files,
    pc, last,
    fleet

identity ==
    <<vm_id, primary_net, primary_mac, private_ipv4, domain_xml, disk_path,
      extra_disks, client_public_key, client_private_key, state>>
environment == <<domains, running, leases, files>>
vars == <<identity, environment, pc, last, fleet>>

\* one step of an operation: <<module or tool, command, disk index or 0>>
NoFail == <<"none", "none", 0>>
NixBuildBase == <<"nix-build", "baseImage", 0>>
Access == <<"os", "access", 0>>
CopyFile == <<"shutil", "copyfile", 0>>
Rebase == <<"qemu-img", "rebase", 0>>
Chmod == <<"os", "chmod", 0>>
NixBuildDisk(k) == <<"nix-build", "generate-ext4-image", k>>
QemuImgCreate(k) == <<"qemu-img", "create", k>>
FindExecutable == <<"spawn", "find_executable", 0>>
WriteFile == <<"nixops.util", "write_file", 0>>
VirshDefine == <<"virsh", "define", 0>>
VirshList == <<"virsh", "list", 0>>
VirshStart == <<"virsh", "start", 0>>
VirshLeases == <<"virsh", "net-dhcp-leases", 0>>
VirshDestroy == <<"virsh", "destroy", 0>>
VirshUndefine == <<"virsh", "undefine", 0>>
Unlink(k) == <<"os", "unlink", k>>

\* the steps of create()'s "if self.vm_id is None" branch, in program order
ProvSteps_LateCheck(defn) ==
    LET ord == DiskOrder(defn.disks)
    IN  <<NixBuildBase, CopyFile, Access, Rebase, Chmod>>
        \o [i \in 1..(2 * Len(ord)) |->
               IF i % 2 = 1 THEN NixBuildDisk(ord[(i + 1) \div 2])
               ELSE QemuImgCreate(ord[i \div 2])]
        \o <<FindExecutable, WriteFile, VirshDefine>>

ProvSteps(defn) ==
    LET ord == DiskOrder(defn.disks)
    IN  <<NixBuildBase, Access, CopyFile, Rebase, Chmod>>
        \o [i \in 1..(2 * Len(ord)) |->
               IF i % 2 = 1 THEN NixBuildDisk(ord[(i + 1) \div 2])
               ELSE QemuImgCreate(ord[i \div 2])]
        \o <<FindExecutable, WriteFile, VirshDefine>>

Range(f) == { f[i] : i \in DOMAIN f }

\* the steps that may fail: the external tools (_logged_exec, check_output)
\* and the two checks of the environment (os.access, find_executable)
StartFails == {NoFail, VirshList, VirshStart, VirshLeases}
StopFails == {NoFail, VirshList, VirshDestroy}
DestroyFails == StopFails \cup {VirshUndefine}
AllCreateFails ==
    StartFails
    \cup {NixBuildBase, Access, Rebase, FindExecutable, VirshDefine}
    \cup { NixBuildDisk(k) : k \in UNION { d.disks : d \in Defns } }
    \cup { QemuImgCreate(k) : k \in UNION { d.disks : d \in Defns } }

CreateFails(defn) ==
    IF vm_id # None THEN StartFails
    ELSE StartFails
         \cup {NixBuildBase, Access, Rebase, FindExecutable, VirshDefine}
         \cup { NixBuildDisk(k) : k \in defn.disks }
         \cup { QemuImgCreate(k) : k \in defn.disks }

\* the draws of random.randint a create() consumes
CreateDraws == IF primary_mac = None THEN GenerateDraws ELSE { <<0, 0, 0>> }

\* "if not self.primary_mac: self._generate_primary_mac()"
AssignMac_Always(cur, r) == _generate_primary_mac(r)

AssignMac(cur, r) == IF cur = None THEN _generate_primary_mac(r) ELSE cur

\* "if self.vm_id is None": create() provisions
NeedsProvisioning_Always == TRUE

NeedsProvisioning == vm_id = None

\* "if not self.vm_id: return True": destroy() has nothing to do
NothingToDestroy_Never == FALSE

NothingToDestroy == vm_id = None

OpRecord(op, had, result, calls, polls) ==
    [op |-> op, had_vm_id |-> had, result |-> result, calls |-> calls, polls |-> polls]

Init ==
    /\ vm_id = None
    /\ primary_net = None
    /\ primary_mac = None
    /\ private_ipv4 = None
    /\ domain_xml = None
    /\ disk_path = None
    /\ extra_disks = <<>>
    /\ client_public_key = None
    /\ client_private_key = None
    /\ state = "UNKNOWN"
    /\ domains = {OtherXml}
    /\ running = {}
    /\ leases = {}
    /\ files = {OtherDisk}
    /\ pc = "idle"
    /\ last = OpRecord("init", FALSE, "ok", <<>>, 0)
    /\ fleet = <<>>

\* start(), up to the call of _wait_for_ip: what it returns or raises, the
\* commands it issued, and what it leaves in private_ipv4 and the hypervisor
start(vid, xml, pnet, pmac, doms, fail) ==
    LET out(res, calls, ip, run) ==
            [result |-> res, calls |-> calls, private_ipv4 |-> ip, running |-> run]
    IN  IF vid = None \/ xml = None \/ pnet = None
        THEN out("error", <<>>, private_ipv4, running)
        ELSE IF fail = VirshList
        THEN out("error", <<VirshList>>, private_ipv4, running)
        ELSE IF _is_running(running, vid)
        THEN IF fail = VirshLeases
             THEN out("error", <<VirshList, VirshLeases>>, private_ipv4, running)
             ELSE out("ok", <<VirshList, VirshLeases>>,
                      _parse_ip(leases, pnet, pmac), running)
        ELSE IF fail = VirshStart \/ vid \notin DomainNames(doms)
        THEN out("error", <<VirshList, VirshStart>>, private_ipv4, running)
        ELSE out("waiting", <<VirshList, VirshStart>>, private_ipv4,
                 running \cup {vid})

\* stop(): what it returns or raises, the commands issued, its effects
stop_IgnoresFailure(fail) ==
    LET out(res, calls, run, st) ==
            [result |-> res, calls |-> calls, running |-> run, state |-> st]
    IN  IF vm_id = None
        THEN out("error", <<>>, running, state)
        ELSE IF fail = VirshList
        THEN out("error", <<VirshList>>, running, state)
        ELSE IF _is_running(running, vm_id)
        THEN IF fail = VirshDestroy \/ vm_id \notin running
             THEN out("ok", <<VirshList, VirshDestroy>>, running, "STOPPED")
             ELSE out("ok", <<VirshList, VirshDestroy>>, running \ {vm_id}, "STOPPED")
        ELSE out("ok", <<VirshList>>, running, "STOPPED")

stop_NoAssert(fail) ==
    LET out(res, calls, run, st) ==
            [result |-> res, calls |-> calls, running |-> run, state |-> st]
    IN  IF fail = VirshList
        THEN out("error", <<VirshList>>, running, state)
        ELSE IF _is_running(running, vm_id)
        THEN IF fail = VirshDestroy \/ vm_id \notin running
             THEN out("error", <<VirshList, VirshDestroy>>, running, state)
             ELSE out("ok", <<VirshList, VirshDestroy>>, running \ {vm_id}, "STOPPED")
        ELSE out("ok", <<VirshList>>, running, "STOPPED")

stop(fail) ==
    LET out(res, calls, run, st) ==
            [result |-> res, calls |-> calls, running |-> run, state |-> st]
    IN  IF vm_id = None
        THEN out("error", <<>>, running, state)
        ELSE IF fail = VirshList
        THEN out("error", <<VirshList>>, running, state)
        ELSE IF _is_running(running, vm_id)
        THEN IF fail = VirshDestroy \/ vm_id \notin running
             THEN out("error", <<VirshList, VirshDestroy>>, running, state)
             ELSE out("ok", <<VirshList, VirshDestroy>>, running \ {vm_id}, "STOPPED")
        ELSE out("ok", <<VirshList>>, running, "STOPPED")

\* ------------------------------------------------------------- operations
\* create(defn, ...): r holds the draws of random.randint, fail is the step
\* that fails (NoFail: none does).  The values the handler computes on its
\* way are bound once each, as \E x \in {value}.
Create(defn, r, fail) ==
    /\ pc = "idle"
    /\ fail \in CreateFails(defn)
    /\ LET pnet == defn.networks[1]
           pmac == AssignMac(primary_mac, r)
           prov == NeedsProvisioning
           had == vm_id # None
       IN
       \E steps \in {ProvSteps(defn)} :
       \E n \in { IF ~prov THEN 0
                  ELSE IF fail \in Range(steps)
                  THEN (CHOOSE i \in 1..Len(steps) : steps[i] = fail) - 1
                  ELSE Len(steps) } :
       \E dn \in { { steps[i] : i \in 1..n } } :
       \E copied \in { (Chmod \in dn) /\ (\A k \in defn.disks : QemuImgCreate(k) \in dn) } :
       \E xd \in { IF copied THEN _copy_extra_disks(defn) ELSE extra_disks } :
       \E vid \in { IF copied THEN _vm_id ELSE vm_id } :
       \E xml \in { IF FindExecutable \in dn
                  THEN _make_domain_xml(defn, pnet, pmac, xd)
                  ELSE domain_xml } :
       \E doms \in { IF VirshDefine \in dn THEN Define(domains, xml) ELSE domains } :
       \E s \in { start(vid, xml, pnet, pmac, doms, fail) } :
       \E aborted \in { (prov /\ n < Len(steps)) } :
       \E issued \in { IF ~prov THEN <<>>
                     ELSE IF n < Len(steps) THEN SubSeq(steps, 1, n + 1)
                     ELSE steps } :
           /\ primary_net' = pnet
           /\ primary_mac' = pmac
           /\ client_public_key' =
                  IF client_public_key = None THEN <<"public-key">> ELSE client_public_key
           /\ client_private_key' =
                  IF client_public_key = None THEN <<"private-key">> ELSE client_private_key
           /\ disk_path' = IF Access \in dn THEN _disk_path(defn) ELSE disk_path
           /\ files' = files
                  \cup (IF CopyFile \in dn THEN {_disk_path(defn)} ELSE {})
                  \cup { ExtraDiskPath(defn, k) : k \in { j \in defn.disks : QemuImgCreate(j) \in dn } }
           /\ extra_disks' = xd
           /\ vm_id' = vid
           /\ domain_xml' = xml
           /\ domains' = doms
           /\ private_ipv4' = IF aborted THEN private_ipv4 ELSE s.private_ipv4
           /\ running' = IF aborted THEN running ELSE s.running
           /\ pc' = IF ~aborted /\ s.result = "waiting" THEN "wait_ip" ELSE "idle"
           /\ last' = IF aborted THEN OpRecord("create", had, "error", issued, 0)
                      ELSE OpRecord("create", had, s.result, issued \o s.calls, 0)
           /\ UNCHANGED <<state, leases, fleet>>

\* start()
Start(fail) ==
    /\ pc = "idle"
    /\ \E s \in { start(vm_id, domain_xml, primary_net, primary_mac, domains, fail) } :
        /\ private_ipv4' = s.private_ipv4
        /\ running' = s.running
        /\ pc' = IF s.result = "waiting" THEN "wait_ip" ELSE "idle"
        /\ last' = OpRecord("start", vm_id # None, s.result, s.calls, 0)
        /\ UNCHANGED <<vm_id, primary_net, primary_mac, domain_xml, disk_path,
                       extra_disks, client_public_key, client_private_key, state,
                       domains, leases, files, fleet>>

\* one iteration of the loop of _wait_for_ip; fail: the lease query fails
WaitForIp(fail) ==
    LET ip == _parse_ip(leases, primary_net, primary_mac)
        calls == Append(last.calls, VirshLeases)
    IN  /\ pc = "wait_ip"
        /\ fail \/ ip # None \/ last.polls < MaxPolls
        /\ private_ipv4' = IF ~fail /\ ip # None THEN ip ELSE private_ipv4
        /\ pc' = IF fail \/ ip # None THEN "idle" ELSE "wait_ip"
        /\ last' = IF fail THEN [last EXCEPT !.result = "error", !.calls = calls]
                   ELSE IF ip # None THEN [last EXCEPT !.result = "ok", !.calls = calls]
                   ELSE [last EXCEPT !.calls = calls, !.polls = @ + 1]
        /\ UNCHANGED <<vm_id, primary_net, primary_mac, domain_xml, disk_path,
                       extra_disks, client_public_key, client_private_key, state,
                       environment, fleet>>

\* stop()
Stop(fail) ==
    /\ pc = "idle"
    /\ \E s \in { stop(fail) } :
        /\ running' = s.running
        /\ state' = s.state
        /\ last' = OpRecord("stop", vm_id # None, s.result, s.calls, 0)
        /\ UNCHANGED <<vm_id, primary_net, primary_mac, private_ipv4, domain_xml,
                       disk_path, extra_disks, client_public_key,
                       client_private_key, domains, leases, files, pc, fleet>>

\* the files destroy() unlinks: disk_path and every imagePath that exists
Unlinked_ImageDir == files

Unlinked ==
    (IF disk_path # None /\ disk_path \in files THEN {disk_path} ELSE {})
    \cup { extra_disks[i][3] : i \in { j \in 1..Len(extra_disks) :
                                        extra_disks[j][3] # None
                                        /\ extra_disks[j][3] \in files } }

UnlinkCalls ==
    (IF disk_path # None /\ disk_path \in files THEN <<Unlink(0)>> ELSE <<>>)
    \o SelectSeq([i \in 1..Len(extra_disks) |-> Unlink(i)],
                 LAMBDA u : extra_disks[u[3]][3] \in files)

\* destroy(wipe=False)
Destroy(fail) ==
    /\ pc = "idle"
    /\ \E s \in { stop(fail) } :
       \E undefined \in { (s.result = "ok" /\ fail # VirshUndefine
                           /\ vm_id \in DomainNames(domains)) } :
           /\ IF NothingToDestroy
              THEN /\ last' = OpRecord("destroy", vm_id # None, "ok", <<>>, 0)
                   /\ UNCHANGED <<running, state, domains, files>>
              ELSE /\ running' = s.running
                   /\ state' = s.state
                   /\ domains' = IF undefined THEN Undefine(domains, vm_id) ELSE domains
                   /\ files' = IF undefined THEN files \ Unlinked ELSE files
                   /\ last' =
                          IF s.result # "ok"
                          THEN OpRecord("destroy", vm_id # None, "error", s.calls, 0)
                          ELSE IF ~undefined
                          THEN OpRecord("destroy", vm_id # None, "error",
                                        Append(s.calls, VirshUndefine), 0)
                          ELSE OpRecord("destroy", vm_id # None, "ok",
                                        Append(s.calls, VirshUndefine) \o UnlinkCalls, 0)
           /\ UNCHANGED <<vm_id, primary_net, primary_mac, private_ipv4, domain_xml,
                          disk_path, extra_disks, client_public_key,
                          client_private_key, leases, pc, fleet>>

\* ------------------------------------------------------------ environment
\* the DHCP server of a network leases an address to an interface of a
\* running domain whose descriptor gives it a MAC
DhcpLease ==
    \E x \in domains : \E i \in 1..Len(XmlIfaces(x)) :
        /\ XmlName(x) \in running
        /\ XmlIfaces(x)[i][1] # None
        /\ x # OtherXml
        /\ <<XmlIfaces(x)[i][2], XmlIfaces(x)[i][1]>> \notin leases
        /\ leases' = leases \cup { <<XmlIfaces(x)[i][2], XmlIfaces(x)[i][1]>> }
        /\ UNCHANGED <<identity, domains, running, files, pc, last, fleet>>

LeaseExpires ==
    \E l \in leases :
        /\ leases' = leases \ {l}
        /\ UNCHANGED <<identity, domains, running, files, pc, last, fleet>>

\* the other machine's domain is started by its own controller
OtherStarts ==
    /\ OtherVmId \notin running
    /\ running' = running \cup {OtherVmId}
    /\ UNCHANGED <<identity, domains, leases, files, pc, last, fleet>>

\* a running domain shuts down by itself
DomainStops ==
    \E d \in running :
        /\ running' = running \ {d}
        /\ UNCHANGED <<identity, domains, leases, files, pc, last, fleet>>

\* a disk file of this machine is removed behind the controller's back
FileLost ==
    \E f \in files \ {OtherDisk} :
        /\ files' = files \ {f}
        /\ UNCHANGED <<identity, domains, running, leases, pc, last, fleet>>

\* an operation of the controller with any input
CreateStep ==
    \E defn \in Defns, r \in CreateDraws, fail \in AllCreateFails : Create(defn, r, fail)
StartStep == \E fail \in StartFails : Start(fail)
WaitStep == \E fail \in BOOLEAN : WaitForIp(fail)
StopStep == \E fail \in StopFails : Stop(fail)
DestroyStep == \E fail \in DestroyFails : Destroy(fail)

Next ==
    \/ CreateStep
    \/ StartStep
    \/ WaitStep
    \/ StopStep
    \/ DestroyStep
    \/ DhcpLease
    \/ LeaseExpires
    \/ OtherStarts
    \/ DomainStops
    \/ FileLost

Spec == Init /\ [][Next]_vars

\* the loop of _wait_for_ip keeps running: after time.sleep(1) it queries the
\* leases again, for as long as the query itself succeeds
Poll == WaitForIp(FALSE)

\* a machine that create() has provisioned and started and stop() has
\* stopped, its lease expired: the states start() is called in
InitDefined ==
    \E defn \in Defns, r \in GenerateDraws :
    \E pnet \in {defn.networks[1]}, pmac \in {_generate_primary_mac(r)} :
    \E xml \in {_make_domain_xml(defn, pnet, pmac, _copy_extra_disks(defn))} :
        /\ vm_id = _vm_id
        /\ primary_net = pnet
        /\ primary_mac = pmac
        /\ private_ipv4 = IpOf(pnet, pmac)
        /\ domain_xml = xml
        /\ disk_path = _disk_path(defn)
        /\ extra_disks = _copy_extra_disks(defn)
        /\ client_public_key = <<"public-key">>
        /\ client_private_key = <<"private-key">>
        /\ state = "STOPPED"
        /\ domains = {OtherXml, xml}
        /\ running = {}
        /\ leases = {}
        /\ files = {OtherDisk, _disk_path(defn)}
                   \cup { ExtraDiskPath(defn, k) : k \in defn.disks }
        /\ pc = "idle"
        /\ last = OpRecord("stop", TRUE, "ok", <<VirshList, VirshDestroy>>, 0)
        /\ fleet = <<>>

\* start() and stop() of that machine, and the environment
NextStart ==
    \/ StartStep
    \/ WaitStep
    \/ StopStep
    \/ DhcpLease
    \/ LeaseExpires
    \/ OtherStarts
    \/ DomainStops

SpecStart == InitDefined /\ [][NextStart]_vars /\ WF_vars(Poll)

\* ------------------------------------------------------ MAC generation
\* the values of random.randint(0x00, 0x7f) and of random.randint(0x00, 0xff)
RandomOctet4_Wide == 0..255

RandomOctet4 == 0..127
RandomOctet == 0..255

\* the lowest and the highest value of a range
Ends(S) == { x \in S : (\A y \in S : x <= y) \/ (\A y \in S : y <= x) }

\* the draws explored: every value of each octet, with the other two octets
\* at the ends of their ranges
MacDraws ==
    (RandomOctet4 \X Ends(RandomOctet) \X Ends(RandomOctet))
    \cup (Ends(RandomOctet4) \X RandomOctet \X Ends(RandomOctet))
    \cup (Ends(RandomOctet4) \X Ends(RandomOctet) \X RandomOctet)

\* an octet sequence _generate_primary_mac can produce
Generable(octets) ==
    /\ octets[4] \in RandomOctet4
    /\ octets[5] \in RandomOctet
    /\ octets[6] \in RandomOctet
    /\ octets = MacOctets(octets[4], octets[5], octets[6])

\* "if not self.primary_mac: self._generate_primary_mac()"
GenerateMac ==
    /\ primary_mac = None
    /\ \E r \in MacDraws : primary_mac' = _generate_primary_mac(r)
    /\ UNCHANGED <<vm_id, primary_net, private_ipv4, domain_xml, disk_path,
                   extra_disks, client_public_key, client_private_key, state,
                   environment, pc, last, fleet>>

NextMac == GenerateMac

SpecMac == Init /\ [][NextMac]_vars

\* --------------------------------------------- several extra disks
\* create() with definitions of no and of two extra disks, and destroy()
DiskDefns ==
    { Definition(<< <<"default">> >>, {}),
      Definition(<< <<"default">> >>, {1, 2}) }

\* the steps of disk provisioning that may fail
DiskFails ==
    {NoFail, Rebase, NixBuildDisk(1), QemuImgCreate(1), NixBuildDisk(2),
     QemuImgCreate(2)}

CreateDisksStep ==
    \E defn \in DiskDefns, r \in CreateDraws, fail \in DiskFails : Create(defn, r, fail)

NextDisks ==
    \/ CreateDisksStep
    \/ WaitStep
    \/ DestroyStep
    \/ DhcpLease

SpecDisks == Init /\ [][NextDisks]_vars

\* ------------------------------------------- two machines, one image_dir
\* Two LibvirtdState objects of one deployment whose create() calls run
\* concurrently on the same image_dir.  Machine and disk names are attribute
\* names of the deployment, here as sequences of characters.
Machines == {1, 2}

FleetNames == { <<"a">>, <<"a", "b">>, <<"a", "-", "b">> }
FleetDiskNames == { <<"b">>, <<"c">> }

\* one machine: its name, defn.disks, the disks _copy_extra_disks has still
\* to create, its local out (as the paths created), and its identity
Machine(name, disks) ==
    [name |-> name, disks |-> disks, todo |-> disks, out |-> {},
     disk_path |-> None, extra_disks |-> None, vm_id |-> None]

InitFleet ==
    /\ vm_id = None
    /\ primary_net = None
    /\ primary_mac = None
    /\ private_ipv4 = None
    /\ domain_xml = None
    /\ disk_path = None
    /\ extra_disks = <<>>
    /\ client_public_key = None
    /\ client_private_key = None
    /\ state = "UNKNOWN"
    /\ domains = {}
    /\ running = {}
    /\ leases = {}
    /\ files = {}
    /\ pc = "idle"
    /\ last = OpRecord("init", FALSE, "ok", <<>>, 0)
    /\ \E n1 \in FleetNames, d1 \in SUBSET FleetDiskNames :
       \E n2 \in FleetNames \ {n1}, d2 \in SUBSET FleetDiskNames :
           fleet = [m \in Machines |-> IF m = 1 THEN Machine(n1, d1) ELSE Machine(n2, d2)]

\* the disk files machine m has written so far
FleetPaths(m) == ({fleet[m].disk_path} \ {None}) \cup fleet[m].out

\* self.disk_path = self._disk_path(defn); shutil.copyfile(..., self.disk_path)
FleetCopyPrimary(m) ==
    /\ fleet[m].disk_path = None
    /\ \E p \in { DiskPathOf(ImageDir, VmIdOf(fleet[m].name)) } :
        /\ fleet' = [fleet EXCEPT ![m].disk_path = p]
        /\ files' = files \cup {p}
    /\ UNCHANGED <<identity, domains, running, leases, pc, last>>

\* one iteration of the loop of _copy_extra_disks, for disk d
FleetCopyExtraDisk(m, d) ==
    /\ fleet[m].disk_path # None
    /\ d \in fleet[m].todo
    /\ \E p \in { ExtraDiskPathOf(ImageDir, VmIdOf(fleet[m].name), d) } :
        /\ fleet' = [fleet EXCEPT ![m].todo = @ \ {d}, ![m].out = @ \cup {p}]
        /\ files' = files \cup {p}
    /\ UNCHANGED <<identity, domains, running, leases, pc, last>>

\* self.extra_disks = self._copy_extra_disks(defn); self.vm_id = self._vm_id()
FleetAssignVmId(m) ==
    /\ fleet[m].disk_path # None
    /\ fleet[m].todo = {}
    /\ fleet[m].vm_id = None
    /\ fleet' = [fleet EXCEPT ![m].extra_disks = fleet[m].out,
                              ![m].vm_id = VmIdOf(fleet[m].name)]
    /\ UNCHANGED <<identity, environment, pc, last>>

FleetPrimaryStep == \E m \in Machines : FleetCopyPrimary(m)
FleetExtraStep == \E m \in Machines, d \in FleetDiskNames : FleetCopyExtraDisk(m, d)
FleetVmIdStep == \E m \in Machines : FleetAssignVmId(m)

NextFleet ==
    \/ FleetPrimaryStep
    \/ FleetExtraStep
    \/ FleetVmIdStep

SpecFleet == InitFleet /\ [][NextFleet]_vars

\* ----------------------------------------------------------------- claims
Count(calls, c) == Cardinality({ i \in 1..Len(calls) : calls[i] = c })
Tools(calls) == { calls[i][1] : i \in 1..Len(calls) }
StartCalls == {VirshList, VirshStart, VirshLeases}
Registered == _vm_id \in DomainNames(domains)

\* C1: a create() entered with vm_id set issues nothing but the commands of
\* start() (no image build, no disk provisioning, no define), also when the
\* disk files are gone; and a successful create() that follows a successful
\* create() from the unprovisioned state adds no provisioning, so the two
\* together copy the primary disk and define the domain exactly once.
C1_OnlyStart ==
    (last.op = "create" /\ last.had_vm_id) => Range(last.calls) \subseteq StartCalls

C1_SecondCreate ==
    (/\ pc = "idle"
     /\ last.op = "create" /\ last.result = "ok" /\ ~last.had_vm_id
     /\ last'.op = "create" /\ last'.result \in {"ok", "waiting"}
     /\ CreateStep)
    => /\ Count(last.calls \o last'.calls, VirshDefine) = 1
       /\ Count(last.calls \o last'.calls, CopyFile) = 1
       /\ Count(last.calls \o last'.calls, Rebase) = 1
       /\ domains' = domains
       /\ files' = files

C1_CreateOnce == []C1_OnlyStart /\ [][C1_SecondCreate]_vars

C1_Witness ==
    /\ last.op = "create" /\ last.had_vm_id /\ last.result = "ok"
    /\ disk_path # None /\ disk_path \notin files

\* C2 (as claimed): after a create() from the unprovisioned state was aborted
\* by the failure of one external tool, a create() in which every tool
\* succeeds leaves the domain registered and running (and returns, or waits
\* for the lease).
ToolFailures ==
    {NixBuildBase, Rebase, VirshDefine, VirshStart}
    \cup { NixBuildDisk(k) : k \in UNION { d.disks : d \in Defns } }
    \cup { QemuImgCreate(k) : k \in UNION { d.disks : d \in Defns } }

C2_Retry ==
    (/\ pc = "idle"
     /\ last.op = "create" /\ last.result = "error" /\ ~last.had_vm_id
     /\ Len(last.calls) > 0 /\ last.calls[Len(last.calls)] \in ToolFailures
     /\ OtherVmId \notin running
     /\ \E defn \in Defns, r \in CreateDraws : Create(defn, r, NoFail)
     /\ primary_net' = primary_net)
    => /\ last'.result \in {"ok", "waiting"}
       /\ _vm_id \in DomainNames(domains')
       /\ _vm_id \in running'

C2_Resumable == [][C2_Retry]_vars

\* C3 (as claimed): between operations, vm_id is set if and only if a domain
\* of that name is registered with the hypervisor.
C3_VmIdIffDefined ==
    pc = "idle" => ((vm_id # None) <=> Registered)

\* C4 (as claimed): a destroy() of a defined machine that succeeds has
\* cleared vm_id.
C4_DestroyClearsVmId ==
    (last.op = "destroy" /\ last.had_vm_id /\ last.result = "ok") => vm_id = None

\* C5: destroy() with vm_id unset returns success, issues no external call
\* and changes neither the identity nor the hypervisor, leases or files.
C5_Step ==
    (vm_id = None /\ last'.op = "destroy" /\ DestroyStep)
    => /\ last'.op = "destroy" /\ last'.result = "ok" /\ last'.calls = <<>>
       /\ UNCHANGED identity
       /\ UNCHANGED environment

C5_DestroyUnsetIsNoop == [][C5_Step]_vars

C5_Witness ==
    /\ last.op = "destroy" /\ ~last.had_vm_id /\ last.result = "ok"
    /\ vm_id = None /\ disk_path # None /\ disk_path \in files

\* C6: start() on a defined machine whose domain is running issues no start
\* command and does not enter the polling loop; it queries the leases at most
\* once, and when it returns it has queried them exactly once and stored the
\* answer in private_ipv4.
C6_Step ==
    (/\ vm_id # None /\ domain_xml # None /\ vm_id \in running
     /\ last'.op = "start" /\ StartStep)
    => /\ VirshStart \notin Range(last'.calls)
       /\ Count(last'.calls, VirshLeases) <= 1
       /\ pc' = "idle"
       /\ last'.result = "ok" =>
              /\ Count(last'.calls, VirshLeases) = 1
              /\ private_ipv4' = _parse_ip(leases, primary_net, primary_mac)
       /\ UNCHANGED <<running, domains>>

C6_ReconnectDoesNotStart == [][C6_Step]_vars

C6_Witness ==
    /\ last.op = "start" /\ last.result = "ok" /\ vm_id \in running
    /\ last.calls = <<VirshList, VirshLeases>>
    /\ private_ipv4 # None

\* C7: once primary_mac is set no operation changes it, and every descriptor
\* rendered or registered for this machine carries no other MAC.
MacsOf(xml) == { XmlIfaces(xml)[i][1] : i \in 1..Len(XmlIfaces(xml)) } \ {None}

C7_DescriptorMac ==
    /\ domain_xml # None => MacsOf(domain_xml) \subseteq {primary_mac}
    /\ \A x \in domains : XmlName(x) = _vm_id => MacsOf(x) \subseteq {primary_mac}

C7_MacStep == primary_mac # None => primary_mac' = primary_mac

C7_MacGeneratedOnce == []C7_DescriptorMac /\ [][C7_MacStep]_vars

C7_Witness ==
    /\ primary_mac # None /\ domain_xml # None /\ Registered
    /\ last.op = "create" /\ last.had_vm_id /\ last.result = "ok"
    /\ state = "STOPPED"

\* C8 (as claimed): once primary_net is set, no create() changes it.
C8_NetStep == primary_net # None => primary_net' = primary_net

C8_PrimaryNetSetOnce == [][C8_NetStep]_vars

\* C9 (as claimed): a create() that renders the descriptor of a definition
\* gives it one interface per entry of defn.networks, in order, exactly one
\* of which carries a MAC: primary_mac, on primary_net.
C9_Rendered(defn) ==
    LET ifs == XmlIfaces(domain_xml')
        withMac == { i \in 1..Len(ifs) : ifs[i][1] # None }
    IN  /\ Len(ifs) = Len(defn.networks)
        /\ \A i \in 1..Len(ifs) : ifs[i][2] = defn.networks[i]
        /\ Cardinality(withMac) = 1
        /\ \A i \in withMac : ifs[i][1] = primary_mac' /\ ifs[i][2] = primary_net'

C9_Step ==
    \A defn \in Defns :
        (/\ domain_xml = None /\ domain_xml' # None
         /\ \E r \in CreateDraws, fail \in AllCreateFails : Create(defn, r, fail))
        => C9_Rendered(defn)

C9_ExactlyOneMac == [][C9_Step]_vars

\* C10 (as claimed): a create() that fails on the writability check of
\* image_dir has invoked no external tool before.
ExternalTools == {"nix-build", "qemu-img", "virsh"}

AccessFailed ==
    /\ last.op = "create" /\ last.result = "error"
    /\ Len(last.calls) > 0 /\ last.calls[Len(last.calls)] = Access

C10_CheckBeforeBuild ==
    AccessFailed => Tools(last.calls) \cap ExternalTools = {}

\* C10 (amended): a create() of an unprovisioned machine whose image_dir is
\* not writable fails after the image build and before anything else: it
\* issues nix-build and the check only, writes no file, invokes neither
\* qemu-img nor virsh, and assigns neither disk_path nor vm_id.
C10_Step ==
    (/\ vm_id = None /\ last'.op = "create" /\ last'.result = "error"
     /\ \E defn \in Defns, r \in CreateDraws : Create(defn, r, Access))
    => /\ last'.result = "error"
       /\ last'.calls = <<NixBuildBase, Access>>
       /\ UNCHANGED <<vm_id, disk_path, extra_disks, domain_xml, private_ipv4>>
       /\ UNCHANGED environment

C10_CheckAfterBuildOnly == [][C10_Step]_vars

C10_Witness == AccessFailed /\ primary_mac # None /\ disk_path = None

\* C11: a destroy() of a machine with vm_id set that succeeds removes exactly
\* the files recorded in disk_path and in the imagePath of each extra_disks
\* entry (those that exist) and no other file; the recorded paths are
\* {image_dir}/{vm_id}.img and {image_dir}/{vm_id}-{disk name}.img.
RecordedPaths ==
    ({disk_path} \ {None}) \cup { extra_disks[i][3] : i \in 1..Len(extra_disks) }

C11_Step ==
    (/\ vm_id # None /\ last'.op = "destroy" /\ last'.result = "ok"
     /\ DestroyStep)
    => /\ files' = files \ RecordedPaths
       /\ disk_path # None => disk_path = ImageDir \o <<"/">> \o vm_id \o <<".img">>
       /\ \A i \in 1..Len(extra_disks) :
              extra_disks[i][3] =
                  ImageDir \o <<"/">> \o vm_id \o <<"-">> \o extra_disks[i][1] \o <<".img">>

C11_DestroyDeletesItsFiles == [][C11_Step]_vars

C11_Witness ==
    /\ last.op = "destroy" /\ last.had_vm_id /\ last.result = "ok"
    /\ Unlink(0) \in Range(last.calls) /\ Unlink(1) \in Range(last.calls)
    /\ RecordedPaths \cap files = {}
    /\ OtherDisk \in files

\* C12 (as claimed): two machines with different names, provisioned in any
\* interleaving on the same image_dir, never get the same vm_id, and no disk
\* file (primary or extra) of one is a disk file of the other.
C12_NoCollision ==
    \A m1 \in DOMAIN fleet, m2 \in DOMAIN fleet :
        m1 # m2 =>
            /\ (fleet[m1].vm_id # None /\ fleet[m2].vm_id # None)
                   => fleet[m1].vm_id # fleet[m2].vm_id
            /\ FleetPaths(m1) \cap FleetPaths(m2) = {}

\* C13: a start() of a registered domain that "virsh list" does not show as
\* running issues "virsh start" and enters the loop of _wait_for_ip.  A
\* lease query of the loop that succeeds and finds no lease of primary_mac on
\* primary_net neither returns nor raises and leaves private_ipv4 alone; one
\* that finds the lease returns with private_ipv4 set to the leased address
\* without its subnet suffix.  If from some point on the lease is always
\* there, every wait ends.
HasLease == _parse_ip(leases, primary_net, primary_mac) # None

C13_StartStep ==
    (/\ vm_id # None /\ domain_xml # None /\ Registered
     /\ ~_is_running(running, vm_id)
     /\ last'.op = "start" /\ Start(NoFail))
    => /\ last'.calls = <<VirshList, VirshStart>>
       /\ last'.result = "waiting" /\ pc' = "wait_ip"
       /\ vm_id \in running'
       /\ private_ipv4' = private_ipv4

C13_PollStep ==
    (pc = "wait_ip" /\ Poll)
    => IF HasLease
       THEN /\ pc' = "idle" /\ last'.result = "ok"
            /\ <<primary_net, primary_mac>> \in leases
            /\ private_ipv4' = IpOf(primary_net, primary_mac)
            /\ "/" \notin Range(private_ipv4')
       ELSE /\ pc' = "wait_ip" /\ last'.result = "waiting"
            /\ private_ipv4' = private_ipv4

C13_Returns ==
    (pc = "wait_ip" /\ pc' = "idle" /\ last'.result = "ok")
    => HasLease /\ private_ipv4' = _parse_ip(leases, primary_net, primary_mac)

C13_WaitEnds == <>[]HasLease => [](pc = "wait_ip" => <>(pc = "idle"))

C14_Step ==
    (/\ vm_id = None /\ last'.op \in {"start", "stop"}
     /\ (StartStep \/ StopStep))
    => /\ last'.result = "error" /\ last'.calls = <<>>
       /\ pc' = "idle"
       /\ UNCHANGED identity
       /\ UNCHANGED environment

C14_UnsetVmIdFails == [][C14_Step]_vars

C14_Witness ==
    /\ last.op = "stop" /\ ~last.had_vm_id /\ last.result = "error"
    /\ last.calls = <<>>
    /\ vm_id = None /\ disk_path # None /\ state = "UNKNOWN"

\* C15: the failure of an external tool ends the operation at that step.
\* Whatever step of start(), stop() or destroy() fails, it is the last one
\* issued and the operation raises.  In destroy(), a failing "virsh destroy" leaves the
\* domain registered and every file in place with no "virsh undefine"
\* issued, and a failing "virsh undefine" leaves every file in place; in
\* create(), a failing "virsh define" is followed by no command of start().
LastCall(calls) == calls[Len(calls)]

Unlinks(calls) == { i \in 1..Len(calls) : calls[i][2] = "unlink" }

C15_Failed(fail) ==
    fail \in Range(last'.calls) =>
        /\ last'.result = "error"
        /\ LastCall(last'.calls) = fail
        /\ Count(last'.calls, fail) = 1
        /\ pc' = "idle"

C15_AnyStep ==
    /\ last'.op = "start" =>
           \A fail \in StartFails : Start(fail) => C15_Failed(fail)
    /\ last'.op = "stop" =>
           \A fail \in StopFails : Stop(fail) => C15_Failed(fail)
    /\ last'.op = "destroy" =>
           \A fail \in DestroyFails : Destroy(fail) => C15_Failed(fail)

C15_DestroyStep ==
    /\ (/\ last'.op = "destroy" /\ vm_id # None
        /\ _is_running(running, vm_id) /\ Destroy(VirshDestroy))
       => /\ last'.result = "error"
          /\ last'.calls = <<VirshList, VirshDestroy>>
          /\ UNCHANGED <<domains, files, running>>
    /\ (vm_id # None /\ last'.op = "destroy" /\ Destroy(VirshUndefine))
       => /\ last'.result = "error"
          /\ Unlinks(last'.calls) = {}
          /\ UNCHANGED <<domains, files>>

C15_CreateStep ==
    (/\ vm_id = None /\ last'.op = "create"
     /\ VirshDefine \in Range(last'.calls)
     /\ \E defn \in Defns, r \in CreateDraws : Create(defn, r, VirshDefine))
    => /\ last'.result = "error"
       /\ LastCall(last'.calls) = VirshDefine
       /\ Range(last'.calls) \cap StartCalls = {}
       /\ pc' = "idle"
       /\ UNCHANGED <<domains, running, private_ipv4>>

C15_FailFast == [][C15_AnyStep /\ C15_DestroyStep /\ C15_CreateStep]_vars

C15_Witness ==
    /\ last.op = "destroy" /\ last.had_vm_id /\ last.result = "error"
    /\ last.calls = <<VirshList, VirshDestroy>>
    /\ vm_id \in running /\ Registered /\ disk_path \in files

\* C19 (as claimed): after create() attempts, some of them aborted by a tool
\* failure during disk provisioning, a destroy() that ran with vm_id set and
\* succeeded leaves no disk file that create() wrote for this machine.
OwnFiles == files \ {OtherDisk}

C19_NoOrphan ==
    (last.op = "destroy" /\ last.had_vm_id /\ last.result = "ok") => OwnFiles = {}

\* the octets a MAC string "xx:xx:xx:xx:xx:xx" stands for
HexVal(c) == (CHOOSE i \in 1..16 : HexDigits[i] = c) - 1
OctetsOf(mac) == [p \in 1..6 |-> 16 * HexVal(mac[3 * p - 2]) + HexVal(mac[3 * p - 1])]

\* C16 (as claimed): a generated MAC starts with 52:54:00, and with the
\* other octets kept, each of its last three octets can take every value of
\* 0x00..0xff.
C16_FullRange ==
    primary_mac # None =>
        /\ SubSeq(primary_mac, 1, 9) = <<"5", "2", ":", "5", "4", ":", "0", "0", ":">>
        /\ \A p \in 4..6 : \A v \in 0..255 :
               Generable([OctetsOf(primary_mac) EXCEPT ![p] = v])

\* C16 (amended): a generated MAC is 52:54:00 followed by three octets in
\* two lower-case hex digits each; with the other octets kept its fourth
\* octet can take exactly the values 0x00..0x7f and its fifth and sixth
\* octet every value of 0x00..0xff.
C16_Range ==
    primary_mac # None =>
        LET o == OctetsOf(primary_mac)
        IN  /\ Len(primary_mac) = 17
            /\ SubSeq(primary_mac, 1, 9) = <<"5", "2", ":", "5", "4", ":", "0", "0", ":">>
            /\ JoinColon(o) = primary_mac
            /\ o[4] \in 0..127 /\ o[5] \in 0..255 /\ o[6] \in 0..255
            /\ \A v \in 0..255 :
                   /\ Generable([o EXCEPT ![4] = v]) <=> v <= 127
                   /\ Generable([o EXCEPT ![5] = v])
                   /\ Generable([o EXCEPT ![6] = v])

C16_Witness == primary_mac = JoinColon(<<82, 84, 0, 127, 255, 0>>)

\* C17 (as claimed): when start() or create() returns successfully for a
\* machine whose own domain is running, private_ipv4 holds an address: it is
\* not unset, and an address resolved before has not been replaced by "not
\* found".
C17_Step ==
    (/\ last' # last /\ last'.op \in {"start", "create"} /\ last'.result = "ok"
     /\ vm_id' \in running)
    => private_ipv4' # None

C17_AddressResolved == [][C17_Step]_vars

\* C18 (as claimed): between operations, the descriptor registered for this
\* machine has an interface on primary_net that carries primary_mac, so the
\* network start() queries is one on which the MAC can be leased.
C18_PrimaryNetRegistered ==
    pc = "idle" =>
        \A x \in domains :
            XmlName(x) = _vm_id =>
                \E i \in 1..Len(XmlIfaces(x)) :
                    XmlIfaces(x)[i] = <<primary_mac, primary_net>>

\* C20 (as claimed): whatever other domains are running, a start() of a
\* registered machine whose "virsh list" succeeds issues "virsh start"
\* exactly when the machine's own domain is not running, a stop() issues
\* "virsh destroy" exactly when it is running, and when start() returns
\* the machine's own domain is running.
C20_StartStep ==
    (/\ last'.op = "start" /\ vm_id # None /\ Registered
     /\ Len(last'.calls) >= 2 /\ StartStep)
    => /\ (VirshStart \in Range(last'.calls)) <=> (vm_id \notin running)
       /\ last'.result = "ok" => vm_id \in running'

C20_StopStep ==
    (/\ last'.op = "stop" /\ vm_id # None
     /\ last'.result = "ok" /\ StopStep)
    => ((VirshDestroy \in Range(last'.calls)) <=> (vm_id \in running))

C20_RunningCheckIsOwn == [][C20_StartStep /\ C20_StopStep]_vars

====
